---- MODULE Spec2Model ----
(***************************************************************************)
(* Model of the kuusi REST layer: the ranking of choosables computed by    *)
(* ResultListWidgetSerializer.get_choosables, the widget dispatch of       *)
(* WidgetViewSet.list (web/rest/widget.py) and the language guard of       *)
(* ChoosableViewSet.list (web/rest/choosable.py).                          *)
(*                                                                         *)
(* web.models and kuusi.settings are not part of the sources at hand; the  *)
(* tables they define (WEIGHT_MAP, LANGUAGE_CODES, AssignmentType, the     *)
(* widget class hierarchy) are taken from the specification's examples.    *)
(***************************************************************************)
EXTENDS Integers, Sequences, FiniteSets, TLC

\* ------------------------------------------------------------------ bounds
MaxChoosables == 2      \* choosables in the catalog, pks 1..MaxChoosables
MaxFacettes == 2        \* facettes, pks 1..MaxFacettes
MaxSelections == 2      \* FacetteSelection rows
MaxAssignments == 2     \* FacetteAssignment rows
MaxWidgets == 2         \* widgets on the page

\* ------------------------------------------------- configuration tables
\* kuusi.settings.WEIGHT_MAP: symbolic weight -> numeric value
WEIGHT_MAP == [low |-> 1, high |-> 3]

\* weight labels that may be stored on a selection; "bogus" is no key of
\* WEIGHT_MAP
StoredWeights == {"low", "high", "bogus"}

\* kuusi.settings.LANGUAGE_CODES
LANGUAGE_CODES == {"en", "de"}

\* FacetteAssignment.AssignmentType.choices (identifiers)
AssignmentTypes == {"supports", "opposes"}

\* FacetteAssignment.AssignmentType.get_score: reduction of a score vector
get_score(scores_by_type) == scores_by_type["supports"] - scores_by_type["opposes"]

\* Session rows: result_id -> language_code
Sessions == [r1 |-> "en", r2 |-> "de"]

\* result ids a request may carry; "r0" matches no Session
ResultIds == {"r1", "r0"}

\* absent value (Python None)
None == "None"

\* RankedChoosableSerializer.get_rank's value for a pk without ranking entry.
\* The source's literal 9999999999 exceeds the model checker's integers; the
\* model keeps a sentinel above every reachable score.
UNRANKED == 999999999

ChoosableIds == 1 .. MaxChoosables
FacetteIds == 1 .. MaxFacettes

VARIABLES
    catalog,        \* number of Choosable rows; Choosable.objects.all() = 1..catalog
    selections,     \* FacetteSelection rows [session, facette, weight]
    assignments,    \* FacetteAssignment rows [facettes, assignment_type, choosables]
    page,           \* Page.widget_list: sequence of widget classes
    resp            \* outcome of the last operation

vars == <<catalog, selections, assignments, page, resp>>

SelectionRows ==
    [session : DOMAIN Sessions, facette : FacetteIds, weight : StoredWeights]

AssignmentRows ==
    [facettes : SUBSET FacetteIds \ {{}},
     assignment_type : AssignmentTypes,
     choosables : SUBSET ChoosableIds]

Idle ==
    [op |-> "idle", arg |-> <<>>, error |-> "none", status |-> 0,
     scores |-> <<>>, ranking |-> <<>>, data |-> <<>>]

\* --------------------------------------------------------------- ranking
\* Session.objects.filter(result_id=session_pk).first()
SessionFirst(session_pk) ==
    IF session_pk \in DOMAIN Sessions THEN session_pk ELSE None

\* FacetteSelection.objects.filter(session=session)
SelectionsOf(session) == {s \in selections : s.session = session}

\* FacetteAssignment.objects.filter(facettes__in=[facette])
AssignmentsOf(facette) == {a \in assignments : facette \in a.facettes}

\* WEIGHT_MAP[selection_weight_key]; a missing key raises KeyError
WeightLookupDefaulting(key) ==
    IF key \in DOMAIN WEIGHT_MAP
    THEN [error |-> "none", value |-> WEIGHT_MAP[key]]
    ELSE [error |-> "none", value |-> 0]

WeightLookup(key) ==
    IF key \in DOMAIN WEIGHT_MAP
    THEN [error |-> "none", value |-> WEIGHT_MAP[key]]
    ELSE [error |-> "KeyError", value |-> 0]

\* the inner loop: for assignment in assignments: scores[type] += 1 * weight
RECURSIVE AddAssignmentScores(_, _, _)
AddAssignmentScores(scores_by_type, todo, selection_weight_value) ==
    IF todo = {} THEN scores_by_type
    ELSE LET assignment == CHOOSE a \in todo : TRUE
             weighted_score == 1 * selection_weight_value
         IN AddAssignmentScores(
                [scores_by_type EXCEPT ![assignment.assignment_type] = @ + weighted_score],
                todo \ {assignment}, selection_weight_value)

\* variant: only assignments whose targets include the choosable count
RECURSIVE AddSelectionScoresTargeted(_, _, _)
AddSelectionScoresTargeted(choosable, scores_by_type, todo) ==
    IF todo = {} THEN [error |-> "none", scores |-> scores_by_type]
    ELSE LET selection == CHOOSE s \in todo : TRUE
             looked == WeightLookup(selection.weight)
         IN IF looked.error # "none"
            THEN [error |-> looked.error, scores |-> scores_by_type]
            ELSE AddSelectionScoresTargeted(choosable,
                    AddAssignmentScores(scores_by_type,
                        {a \in AssignmentsOf(selection.facette) : choosable \in a.choosables},
                        looked.value),
                    todo \ {selection})

\* variant: the weight is subtracted instead of added
RECURSIVE AddSelectionScoresSubtracting(_, _, _)
AddSelectionScoresSubtracting(choosable, scores_by_type, todo) ==
    IF todo = {} THEN [error |-> "none", scores |-> scores_by_type]
    ELSE LET selection == CHOOSE s \in todo : TRUE
             looked == WeightLookup(selection.weight)
         IN IF looked.error # "none"
            THEN [error |-> looked.error, scores |-> scores_by_type]
            ELSE AddSelectionScoresSubtracting(choosable,
                    AddAssignmentScores(scores_by_type,
                        AssignmentsOf(selection.facette), 0 - looked.value),
                    todo \ {selection})

\* the middle loop: for selection in selections; the choosable of the outer
\* loop is in scope but not used
RECURSIVE AddSelectionScores(_, _, _)
AddSelectionScores(choosable, scores_by_type, todo) ==
    IF todo = {} THEN [error |-> "none", scores |-> scores_by_type]
    ELSE LET selection == CHOOSE s \in todo : TRUE
             looked == WeightLookup(selection.weight)
         IN IF looked.error # "none"
            THEN [error |-> looked.error, scores |-> scores_by_type]
            ELSE AddSelectionScores(choosable,
                    AddAssignmentScores(scores_by_type,
                        AssignmentsOf(selection.facette), looked.value),
                    todo \ {selection})

\* scores_by_type of one choosable: every category starts at zero
ScoresByType(choosable, session_selections) ==
    AddSelectionScores(choosable, [t \in AssignmentTypes |-> 0], session_selections)

\* the outer loop: for choosable in choosables; ranking[choosable.pk] = get_score(...)
RECURSIVE RankLoop(_, _, _, _)
RankLoop(choosable, session_selections, scores, ranking) ==
    IF choosable > catalog
    THEN [error |-> "none", scores |-> scores, ranking |-> ranking]
    ELSE LET r == ScoresByType(choosable, session_selections)
         IN IF r.error # "none"
            THEN [error |-> r.error, scores |-> <<>>, ranking |-> <<>>]
            ELSE RankLoop(choosable + 1, session_selections,
                          Append(scores, r.scores),
                          Append(ranking, get_score(r.scores)))

\* RankedChoosableSerializer.get_rank
get_rank(ranking, pk) ==
    IF pk \in DOMAIN ranking THEN ranking[pk] ELSE UNRANKED

\* RankedChoosableSerializer.get_description: session.language_code of a
\* missing session raises AttributeError
get_description(pk, session) ==
    IF session = None
    THEN [error |-> "AttributeError", value |-> <<>>]
    ELSE [error |-> "none", value |-> <<"description", pk, Sessions[session]>>]

\* RankedChoosableSerializer(choosables, many=True).data
RECURSIVE SerializeRanked(_, _, _, _)
SerializeRanked(pk, session, ranking, data) ==
    IF pk > catalog THEN [error |-> "none", data |-> data]
    ELSE LET d == get_description(pk, session)
         IN IF d.error # "none"
            THEN [error |-> d.error, data |-> <<>>]
            ELSE SerializeRanked(pk + 1, session, ranking,
                    Append(data, [id |-> pk, description |-> d.value,
                                  rank |-> get_rank(ranking, pk)]))

\* ResultListWidgetSerializer.get_choosables
get_choosables(session_pk) ==
    LET session == SessionFirst(session_pk)
        ranked == RankLoop(1, SelectionsOf(session), <<>>, <<>>)
        serialized == SerializeRanked(1, session, ranked.ranking, <<>>)
    IN IF ranked.error # "none"
       THEN [error |-> ranked.error, scores |-> <<>>, ranking |-> <<>>, data |-> <<>>]
       ELSE [error |-> serialized.error, scores |-> ranked.scores,
             ranking |-> ranked.ranking, data |-> serialized.data]


\* ------------------------------------------------------ widget dispatch
\* widget classes of web.models; Widget is the base class
RegisteredClasses ==
    {"HTMLWidget", "NavigationWidget", "SessionVersionWidget",
     "FacetteRadioSelectionWidget", "FacetteSelectionWidget",
     "ResultListWidget", "ResultShareWidget"}

\* a widget class deriving from HTMLWidget for which no serializer is registered
UnregisteredSubclass == "HTMLWidgetSubclass"

WidgetClasses == RegisteredClasses \cup {"Widget", UnregisteredSubclass}

\* direct base class; the radio selection specialises the facette selection
\* ("specialized before generic" in the registration)
BaseClass ==
    [c \in WidgetClasses \ {"Widget"} |->
        CASE c = "FacetteRadioSelectionWidget" -> "FacetteSelectionWidget"
          [] c = UnregisteredSubclass -> "HTMLWidget"
          [] OTHER -> "Widget"]

\* isinstance(widget, key) for a widget of class cls
RECURSIVE isinstance(_, _)
isinstance(cls, key) ==
    \/ cls = key
    \/ /\ cls \in DOMAIN BaseClass
       /\ isinstance(BaseClass[cls], key)

\* the OrderedDict of WidgetViewSet.list: keys in registration order ...
SerializerOrder ==
    <<"HTMLWidget", "NavigationWidget", "SessionVersionWidget",
      "FacetteRadioSelectionWidget", "FacetteSelectionWidget",
      "ResultListWidget", "ResultShareWidget">>

\* ... and the class -> serializer mapping
serializers ==
    [c \in RegisteredClasses |->
        CASE c = "HTMLWidget" -> "HTMLWidgetSerializer"
          [] c = "NavigationWidget" -> "NavigationWidgetSerializer"
          [] c = "SessionVersionWidget" -> "SessionVersionWidgetSerializer"
          [] c = "FacetteRadioSelectionWidget" -> "FacetteRadioSelectionWidgetSerializer"
          [] c = "FacetteSelectionWidget" -> "FacetteSelectionWidgetSerializer"
          [] c = "ResultListWidget" -> "ResultListWidgetSerializer"
          [] c = "ResultShareWidget" -> "ResultShareWidgetSerializer"]

\* variant: the serializer of the first matching key (value) is taken
RECURSIVE SelectSerializerFirstMatch(_, _, _)
SelectSerializerFirstMatch(order, i, cls) ==
    IF i > Len(order)
    THEN [matched |-> FALSE, error |-> "none", serializer |-> None]
    ELSE IF isinstance(cls, order[i])
         THEN [matched |-> TRUE, error |-> "none", serializer |-> serializers[order[i]]]
         ELSE SelectSerializerFirstMatch(order, i + 1, cls)

\* the inner loop of WidgetViewSet.list over serializers.items(), from entry i:
\* on the first key the widget is an instance of, serializers[type(widget)] is
\* looked up, which raises KeyError for a class that is no key
RECURSIVE SelectSerializer(_, _, _)
SelectSerializer(order, i, cls) ==
    IF i > Len(order)
    THEN [matched |-> FALSE, error |-> "none", serializer |-> None]
    ELSE IF isinstance(cls, order[i])
         THEN IF cls \in DOMAIN serializers
              THEN [matched |-> TRUE, error |-> "none", serializer |-> serializers[cls]]
              ELSE [matched |-> TRUE, error |-> "KeyError", serializer |-> None]
         ELSE SelectSerializer(order, i + 1, cls)

\* results.data of the selected serializer for the widget with the given id;
\* only the result list's record depends on the session
SerializerData(serializer, id, cls, session_pk) ==
    LET r == IF serializer = "ResultListWidgetSerializer"
             THEN get_choosables(session_pk)
             ELSE [error |-> "none", scores |-> <<>>, ranking |-> <<>>, data |-> <<>>]
    IN [error |-> r.error,
        record |-> [id |-> id, widget_type |-> cls, serializer |-> serializer,
                    choosables |-> r.data]]

\* the outer loop of WidgetViewSet.list over obj.widget_list
RECURSIVE RenderWidgets(_, _, _, _)
RenderWidgets(widget_list, i, session_pk, result) ==
    IF i > Len(widget_list) THEN [error |-> "none", data |-> result]
    ELSE LET sel == SelectSerializer(SerializerOrder, 1, widget_list[i])
         IN IF ~sel.matched
            THEN RenderWidgets(widget_list, i + 1, session_pk, result)
            ELSE IF sel.error # "none"
            THEN [error |-> sel.error, data |-> <<>>]
            ELSE LET d == SerializerData(sel.serializer, i, widget_list[i], session_pk)
                 IN IF d.error # "none"
                    THEN [error |-> d.error, data |-> <<>>]
                    ELSE RenderWidgets(widget_list, i + 1, session_pk,
                                       Append(result, d.record))

\* the pages that exist, and the page ids a request may carry
PagePks == {1}
RequestPagePks == {1, 2}

\* WidgetViewSet.list: a page_pk matching no Page leaves obj = None, and
\* obj.widget_list raises AttributeError
widget_list(session_pk, page_pk) ==
    IF page_pk \notin PagePks
    THEN [error |-> "AttributeError", data |-> <<>>]
    ELSE RenderWidgets(page, 1, session_pk, <<>>)

\* ------------------------------------------------------- choosable list
\* ChoosableSerializer(queryset, many=True).data; descriptions are in "en"
SerializeChoosables ==
    [pk \in 1 .. catalog |-> [id |-> pk, description |-> <<"description", pk, "en">>]]

\* variant: only a missing lang parameter is rejected
choosable_list_missing_only(lang) ==
    IF lang = None
    THEN [status |-> 412, data |-> None]
    ELSE [status |-> 200, data |-> SerializeChoosables]

\* ChoosableViewSet.list; lang = None when the query parameter is missing
choosable_list(lang) ==
    IF lang \notin LANGUAGE_CODES
    THEN [status |-> 412, data |-> None]
    ELSE [status |-> 200, data |-> SerializeChoosables]

RequestLangs == LANGUAGE_CODES \cup {"xx", None}

\* ------------------------------------------------------------- actions
\* configuration of the catalog, the assignments and the session's selections
\* happens before a result is requested
AddChoosable ==
    /\ resp.op = "idle"
    /\ catalog < MaxChoosables
    /\ catalog' = catalog + 1
    /\ UNCHANGED <<selections, assignments, page, resp>>

AddSelection ==
    /\ resp.op = "idle"
    /\ Cardinality(selections) < MaxSelections
    /\ \E s \in SelectionRows \ selections : selections' = selections \cup {s}
    /\ UNCHANGED <<catalog, assignments, page, resp>>

AddAssignment ==
    /\ resp.op = "idle"
    /\ Cardinality(assignments) < MaxAssignments
    /\ \E a \in AssignmentRows \ assignments :
          /\ a.choosables \subseteq 1 .. catalog
          /\ assignments' = assignments \cup {a}
    /\ UNCHANGED <<catalog, selections, page, resp>>

\* a selection's weight label is replaced by another label
ReplaceWeight ==
    /\ \E s \in selections : \E w \in StoredWeights \ {s.weight} :
          LET t == [s EXCEPT !.weight = w]
          IN /\ t \notin selections
             /\ selections' = (selections \ {s}) \cup {t}
             /\ resp' = [Idle EXCEPT !.op = "replace_weight",
                                     !.arg = [old |-> s, new |-> t]]
    /\ UNCHANGED <<catalog, assignments, page>>

\* one evaluation of the result list's choosables field
GetChoosables ==
    /\ \E session_pk \in ResultIds :
          LET r == get_choosables(session_pk)
          IN resp' = [Idle EXCEPT !.op = "get_choosables",
                                  !.arg = [session_pk |-> session_pk],
                                  !.error = r.error, !.scores = r.scores,
                                  !.ranking = r.ranking, !.data = r.data]
    /\ UNCHANGED <<catalog, selections, assignments, page>>

Init ==
    /\ catalog = 0
    /\ selections = {}
    /\ assignments = {}
    /\ page = <<>>
    /\ resp = Idle

Next == AddChoosable \/ AddSelection \/ AddAssignment \/ ReplaceWeight \/ GetChoosables

Spec == Init /\ [][Next]_vars

\* a widget is placed on the page
AddWidget ==
    /\ resp.op = "idle"
    /\ Len(page) < MaxWidgets
    /\ \E cls \in WidgetClasses : page' = Append(page, cls)
    /\ UNCHANGED <<catalog, selections, assignments, resp>>

\* GET of the widgets of a page for a session
WidgetList ==
    /\ \E session_pk \in ResultIds : \E page_pk \in RequestPagePks :
          LET r == widget_list(session_pk, page_pk)
          IN resp' = [Idle EXCEPT !.op = "widget_list",
                                  !.arg = [session_pk |-> session_pk, page_pk |-> page_pk],
                                  !.error = r.error,
                                  !.status = IF r.error = "none" THEN 200 ELSE 500,
                                  !.data = r.data]
    /\ UNCHANGED <<catalog, selections, assignments, page>>

\* GET of the choosables
ChoosableList ==
    /\ \E lang \in RequestLangs :
          LET r == choosable_list(lang)
          IN resp' = [Idle EXCEPT !.op = "choosable_list",
                                  !.arg = [lang |-> lang],
                                  !.status = r.status, !.data = r.data]
    /\ UNCHANGED <<catalog, selections, assignments, page>>

\* the scenario of the specification: two selections of session r1, and two
\* assignments targeting choosable 1
ScenarioSelections ==
    {[session |-> "r1", facette |-> 1, weight |-> "high"],
     [session |-> "r1", facette |-> 2, weight |-> "low"]}

ScenarioAssignments ==
    {[facettes |-> {1}, assignment_type |-> "supports", choosables |-> {1}],
     [facettes |-> {2}, assignment_type |-> "opposes", choosables |-> {1}]}

InitWidgets ==
    /\ catalog \in 0 .. MaxChoosables
    /\ selections \in {{}, ScenarioSelections,
                       {[session |-> "r1", facette |-> 1, weight |-> "bogus"]}}
    /\ assignments \in {{}} \cup (IF catalog >= 1 THEN {ScenarioAssignments} ELSE {})
    /\ page = <<>>
    /\ resp = Idle

NextWidgets == AddWidget \/ WidgetList \/ ChoosableList

SpecWidgets == InitWidgets /\ [][NextWidgets]_vars

\* =============================================================== claims
IsRanking == resp.op = "get_choosables"
IsWidgetList == resp.op = "widget_list"

\* sum of WEIGHT_MAP[s.weight] over a set of <<selection, assignment>> pairs
RECURSIVE SumOfWeights(_)
SumOfWeights(pairs) ==
    IF pairs = {} THEN 0
    ELSE LET p == CHOOSE q \in pairs : TRUE
         IN WEIGHT_MAP[p[1].weight] + SumOfWeights(pairs \ {p})

\* the pairs (selection of the session, assignment) that the specification
\* counts for choosable x and category c
TargetedPairs(session_pk, x, c) ==
    {p \in SelectionsOf(SessionFirst(session_pk)) \X assignments :
        /\ p[1].facette \in p[2].facettes
        /\ p[2].assignment_type = c
        /\ x \in p[2].choosables}

\* C1: whenever get_choosables has computed the score vectors, the score of
\* (X, c) is the sum of the weights over the pairs (selection, assignment)
\* whose assignment is of category c, covers the selection's facette and
\* targets X; assignments not targeting X contribute nothing.
C1_ScoreCountsOnlyTargets ==
    (IsRanking /\ resp.error # "KeyError") =>
        \A x \in 1 .. catalog : \A c \in AssignmentTypes :
            resp.scores[x][c] = SumOfWeights(TargetedPairs(resp.arg.session_pk, x, c))

Untargeted(x) == \A a \in assignments : x \notin a.choosables

\* C2: a choosable that is the target of no assignment is emitted with the
\* unranked sentinel as its rank.
C2_UntargetedIsUnranked ==
    (IsRanking /\ resp.error = "none") =>
        \A x \in 1 .. catalog : Untargeted(x) => resp.data[x].rank = UNRANKED

HasUnknownWeight(session_pk) ==
    \E s \in SelectionsOf(SessionFirst(session_pk)) : s.weight \notin DOMAIN WEIGHT_MAP

\* C4 as stated: a selection of the session with a weight label outside
\* WEIGHT_MAP makes the ranking computation abort with an error.
C4_UnknownWeightAborts ==
    (IsRanking /\ HasUnknownWeight(resp.arg.session_pk)) =>
        /\ resp.error = "KeyError"
        /\ resp.ranking = <<>>
        /\ resp.data = <<>>

\* C4 as amended: with at least one choosable in the catalog, a selection of
\* the session with a weight label outside WEIGHT_MAP makes the ranking
\* computation abort with KeyError, without rank map and without output.
C4_UnknownWeightAbortsNonEmptyCatalog ==
    (IsRanking /\ catalog >= 1 /\ HasUnknownWeight(resp.arg.session_pk)) =>
        /\ resp.error = "KeyError"
        /\ resp.ranking = <<>>
        /\ resp.data = <<>>

C4_Witness ==
    /\ IsRanking
    /\ catalog >= 1
    /\ HasUnknownWeight(resp.arg.session_pk)
    /\ resp.error = "KeyError"

\* the score get_choosables accumulates for (session, x, c)
ScoreOf(session, x, c) == ScoresByType(x, SelectionsOf(session)).scores[c]

AllWeightsKnown(session) ==
    \A s \in SelectionsOf(session) : s.weight \in DOMAIN WEIGHT_MAP

\* the step replaces the weight of selection s by label w, nothing else changes
ReplacesWeight(s, w) ==
    /\ [s EXCEPT !.weight = w] \notin selections
    /\ selections' = (selections \ {s}) \cup {[s EXCEPT !.weight = w]}
    /\ assignments' = assignments
    /\ catalog' = catalog

\* C7: replacing one selection's weight label by a label of strictly greater
\* WEIGHT_MAP value decreases no score of any choosable and category, and
\* strictly increases the score of every category in which the selection's
\* facette has an assignment.
C7_WeightMonotone ==
    [][\A s \in selections : \A w \in DOMAIN WEIGHT_MAP :
          (/\ AllWeightsKnown(s.session)
           /\ WEIGHT_MAP[w] > WEIGHT_MAP[s.weight]
           /\ ReplacesWeight(s, w))
          => \A x \in 1 .. catalog : \A c \in AssignmentTypes :
                /\ ScoreOf(s.session, x, c)' >= ScoreOf(s.session, x, c)
                /\ (\E a \in AssignmentsOf(s.facette) : a.assignment_type = c)
                      => ScoreOf(s.session, x, c)' > ScoreOf(s.session, x, c)]_vars

C7_Witness ==
    /\ resp.op = "replace_weight"
    /\ catalog >= 1
    /\ resp.arg.old.weight = "low"
    /\ resp.arg.new.weight = "high"
    /\ AllWeightsKnown(resp.arg.new.session)
    /\ \E a \in AssignmentsOf(resp.arg.new.facette) : a.assignment_type = "supports"
    /\ ScoreOf(resp.arg.new.session, 1, "supports") >= WEIGHT_MAP["high"]

\* C10: a completed get_choosables has a rank map entry for every choosable of
\* the catalog, and all choosables have the same score vector and the same
\* rank, whatever the selections and assignments are.
C10_AllRanksEqual ==
    (IsRanking /\ resp.error = "none") =>
        /\ DOMAIN resp.ranking = 1 .. catalog
        /\ \A x \in 1 .. catalog : \A y \in 1 .. catalog :
              /\ resp.scores[x] = resp.scores[y]
              /\ resp.ranking[x] = resp.ranking[y]
              /\ resp.data[x].rank = resp.data[y].rank
              /\ resp.data[x].rank = resp.ranking[x]

C10_Witness ==
    /\ IsRanking
    /\ resp.error = "none"
    /\ catalog = 2
    /\ \E s \in SelectionsOf(resp.arg.session_pk) : \E a \in AssignmentsOf(s.facette) :
          /\ a.choosables = {1}
          /\ a.assignment_type = "supports"
          /\ s.weight \in DOMAIN WEIGHT_MAP
    /\ resp.data[2].rank # 0

PageFound == resp.arg.page_pk \in PagePks

\* the record emitted for the widget at position i of the page, if any
RecordsOf(i) == {k \in 1 .. Len(resp.data) : resp.data[k].id = i}

\* the widget's class is itself a registered key
ExactlyRegistered(cls) == cls \in RegisteredClasses

\* the widget is an instance of some registered class
MatchesRegistered(cls) == \E key \in RegisteredClasses : isinstance(cls, key)

\* C3: with a session_pk matching no Session, listing a page that holds a
\* ResultListWidget next to other (registered) widgets completes without
\* raising, and the other widgets are rendered in the response.
C3_MissingSessionStillRenders ==
    (/\ IsWidgetList
     /\ PageFound
     /\ resp.arg.session_pk \notin DOMAIN Sessions
     /\ \A i \in 1 .. Len(page) : ExactlyRegistered(page[i])
     /\ \E i \in 1 .. Len(page) : page[i] = "ResultListWidget"
     /\ \E i \in 1 .. Len(page) : page[i] # "ResultListWidget")
    => /\ resp.error = "none"
       /\ \A i \in 1 .. Len(page) :
             page[i] # "ResultListWidget" => RecordsOf(i) # {}

\* the registration orders obtained from the code's by moving the generic
\* FacetteSelectionWidget entry to any position
RECURSIVE InsertAt(_, _, _)
InsertAt(seq, k, e) ==
    IF k = 1 THEN <<e>> \o seq
    ELSE <<Head(seq)>> \o InsertAt(Tail(seq), k - 1, e)

RegistrationOrders ==
    LET rest == SelectSeq(SerializerOrder, LAMBDA c : c # "FacetteSelectionWidget")
    IN {InsertAt(rest, k, "FacetteSelectionWidget") : k \in 1 .. Len(rest) + 1}

\* C5: every record emitted for a widget whose class is a registered key comes
\* from the serializer registered for exactly that class, each such widget of
\* a completed listing has its record, and the selection is the same wherever
\* the supertype FacetteSelectionWidget sits in the registration order.
C5_ExactTypeSerializer ==
    /\ \A order \in RegistrationOrders : \A cls \in RegisteredClasses :
          SelectSerializer(order, 1, cls) =
              [matched |-> TRUE, error |-> "none", serializer |-> serializers[cls]]
    /\ (IsWidgetList /\ PageFound /\ resp.error = "none") =>
          \A i \in 1 .. Len(page) :
             ExactlyRegistered(page[i]) =>
                /\ RecordsOf(i) # {}
                /\ \A k \in RecordsOf(i) :
                      /\ resp.data[k].widget_type = page[i]
                      /\ resp.data[k].serializer = serializers[page[i]]

C5_Witness ==
    /\ IsWidgetList
    /\ PageFound
    /\ resp.error = "none"
    /\ Len(resp.data) = 2
    /\ resp.data[1].widget_type = "FacetteSelectionWidget"
    /\ resp.data[1].serializer = "FacetteSelectionWidgetSerializer"
    /\ resp.data[2].widget_type = "FacetteRadioSelectionWidget"
    /\ resp.data[2].serializer = "FacetteRadioSelectionWidgetSerializer"

\* positions of the page whose widget is an instance of a registered class
MatchingPositions == SelectSeq([i \in 1 .. Len(page) |-> i],
                               LAMBDA i : MatchesRegistered(page[i]))

\* C6: the response is the in-order sequence of one record per widget that
\* matches a registered class; other widgets yield no record and no error.
C6_OneRecordPerMatchingWidget ==
    (IsWidgetList /\ PageFound) =>
        /\ resp.error = "none"
        /\ [k \in 1 .. Len(resp.data) |-> resp.data[k].id] = MatchingPositions

\* the serializer of the nearest registered base class
RECURSIVE GeneralSerializer(_)
GeneralSerializer(cls) ==
    IF cls \in DOMAIN serializers THEN serializers[cls]
    ELSE IF cls \in DOMAIN BaseClass THEN GeneralSerializer(BaseClass[cls])
    ELSE None

\* C9: a widget whose class is no registered key but derives from a registered
\* class is rendered by that class's serializer; the dispatch raises nothing.
C9_FallsBackToGeneralSerializer ==
    (/\ IsWidgetList
     /\ PageFound
     /\ \E i \in 1 .. Len(page) : page[i] = UnregisteredSubclass)
    => /\ resp.error # "KeyError"
       /\ resp.error = "none" =>
             \A i \in 1 .. Len(page) :
                page[i] = UnregisteredSubclass =>
                   \E k \in RecordsOf(i) :
                      resp.data[k].serializer = GeneralSerializer(page[i])

\* C8: a lang parameter that is missing or outside LANGUAGE_CODES is answered
\* with status 412 and without any choosable data; a lang in LANGUAGE_CODES is
\* answered with the serialized list of all choosables.
C8_LanguageGuard ==
    resp.op = "choosable_list" =>
        IF resp.arg.lang \in LANGUAGE_CODES
        THEN /\ resp.status = 200
             /\ resp.data = SerializeChoosables
        ELSE /\ resp.status = 412
             /\ resp.data = None

C8_Witness ==
    /\ resp.op = "choosable_list"
    /\ resp.arg.lang = "xx"
    /\ resp.status = 412
    /\ catalog >= 1

====
